---- MODULE Spec2Model ----
(***************************************************************************)
(* A model of ollamaurl (src/main.go): the program that fetches a model's  *)
(* manifest from the registry, lists the download URLs of its layers and   *)
(* rewrites the source array of ./PKGBUILD.                                *)
(*                                                                         *)
(* Strings are sequences of tokens.  A token is a piece of text no other   *)
(* tokens can spell: "source=(" , ")" , "registry.ollama.ai", "\n", " ",   *)
(* ":" and so on.  The string functions of the Go library (strings.Cut,    *)
(* strings.Split, strings.TrimSpace, strings.HasPrefix, strings.Contains,  *)
(* strings.ReplaceAll, strings.Join, path.Join) are operators over such    *)
(* sequences, computed as the library computes them.                       *)
(***************************************************************************)
EXTENDS Integers, Sequences, FiniteSets, TLC

\* ------------------------------------------------------------------ bounds

\* The longest PKGBUILD, in tokens, of the patcher's specification.
MaxLen == 5
\* The longest model name (the command-line argument), in tokens.
MaxNameLen == 3
\* The most layers of a manifest.
MaxLayers == 2

\* ----------------------------------------------------------------- strings

NL == "\n"
Host == "registry.ollama.ai"
SourceOpen == "source=("
Close == ")"

\* The sequences over S of length at most n.
SeqsUpTo(S, n) == UNION {[1..k -> S] : k \in 0..n}

\* The index of the first tok in s, 0 when there is none.
IndexOf(s, tok) ==
    IF \E i \in 1..Len(s) : s[i] = tok
    THEN CHOOSE i \in 1..Len(s) : s[i] = tok /\ \A j \in 1..(i - 1) : s[j] # tok
    ELSE 0

\* strings.Cut(s, sep): the text before and after the first sep.
Cut(s, sep) ==
    LET i == IndexOf(s, sep)
    IN IF i = 0
       THEN [before |-> s, after |-> <<>>, found |-> FALSE]
       ELSE [before |-> SubSeq(s, 1, i - 1), after |-> SubSeq(s, i + 1, Len(s)), found |-> TRUE]

\* strings.Split(s, "\n")
RECURSIVE Split(_)
Split(s) ==
    LET c == Cut(s, NL)
    IN IF c.found THEN <<c.before>> \o Split(c.after) ELSE <<s>>

\* strings.Join(elems, sep)
RECURSIVE Join(_, _)
Join(elems, sep) ==
    IF elems = <<>> THEN <<>>
    ELSE IF Len(elems) = 1 THEN elems[1]
    ELSE elems[1] \o sep \o Join(Tail(elems), sep)

\* The white space strings.TrimSpace strips.
Space == {" ", "\t", "\r"}

\* strings.TrimSpace(s)
RECURSIVE TrimLeft(_)
TrimLeft(s) == IF s # <<>> /\ s[1] \in Space THEN TrimLeft(Tail(s)) ELSE s

RECURSIVE TrimRight(_)
TrimRight(s) ==
    IF s # <<>> /\ s[Len(s)] \in Space THEN TrimRight(SubSeq(s, 1, Len(s) - 1)) ELSE s

TrimSpace(s) == TrimRight(TrimLeft(s))

\* strings.HasPrefix(s, tok), for a prefix of one token
HasPrefix(s, tok) == s # <<>> /\ s[1] = tok

\* strings.Contains(s, tok), for a substring of one token
Contains(s, tok) == \E i \in 1..Len(s) : s[i] = tok

\* strings.ReplaceAll(s, old, new), for one-token old and new
ReplaceAll(s, old, new) == [i \in 1..Len(s) |-> IF s[i] = old THEN new ELSE s[i]]

\* path.Join(elems...): the empty elements are dropped, the others joined by
\* "/".  (No token here is ".", ".." or "/", so path.Clean changes nothing.)
PathJoin(elems) == Join(SelectSeq(elems, LAMBDA e : e # <<>>), <<"/">>)

\* ------------------------------------------------------------ the registry

\* url.Parse("https://registry.ollama.ai")
BaseURL == <<"https://", Host>>

\* base.ResolveReference(&url.URL{Path: p}).String(), for the relative path p:
\* the base has no path, so the result is the base, "/" and p.  A ":" in
\* the path is not escaped.
ResolveReference(base, p) == base \o <<"/">> \o p

ManifestURL(base, modelName, tag) ==
    ResolveReference(base, PathJoin(<<<<"v2">>, <<"library">>, modelName, <<"manifests">>, tag>>))

constructBlobURL(base, modelName, digest) ==
    ResolveReference(base, PathJoin(<<<<"v2">>, <<"library">>, modelName, <<"blobs">>, digest>>))

createFilename(digest) == ReplaceAll(digest, ":", "-")

ParseModelPathEmptyTag(name) ==
    LET c == Cut(name, ":")
    IN IF ~c.found \/ c.after = <<>> THEN <<c.before, <<"latest">>>> ELSE <<c.before, c.after>>

ParseModelPath(name) ==
    LET c == Cut(name, ":")
    IN IF ~c.found THEN <<c.before, <<"latest">>>> ELSE <<c.before, c.after>>

\* The digests a manifest names.
Digests == {<<"sha256", ":", "aaa">>, <<"sha256", ":", "bbb">>}

\* The manifests a response body decodes to: the config layer's digest (empty
\* when the body has none) and the layers' digests, in order.
Manifests ==
    {[config |-> c, layers |-> l] : c \in {<<>>, <<"sha256", ":", "aaa">>},
                                    l \in SeqsUpTo(Digests, MaxLayers)}

StatusOK == 200

\* resp.Status
StatusText(code) ==
    CASE code = 200 -> "200 OK"
      [] code = 404 -> "404 Not Found"
      [] OTHER -> "500 Internal Server Error"

\* What c.http.Do(req) returns: an error, or a response with a status and a
\* body that is a JSON manifest (json |-> <<m>>) or not JSON (json |-> <<>>).
Responses ==
    {[failed |-> TRUE, status |-> 0, json |-> <<>>]}
    \cup {[failed |-> FALSE, status |-> StatusOK, json |-> j] :
              j \in {<<>>} \cup {<<m>> : m \in Manifests}}
    \cup {[failed |-> FALSE, status |-> s, json |-> j] :
              s \in {404, 500},
              j \in {<<>>, <<[config |-> <<>>, layers |-> <<<<"sha256", ":", "bbb">>>>]>>}}

\* Client.GetManifest, given what the registry answers: the manifest (<<>> is
\* nil), the error (<<>> is nil) and whether the body went to the decoder.
\* (http.NewRequestWithContext fails on no URL these tokens spell.  The plain
\* program's GetManifest is the same but for the line it prints first.)
GetManifestDecodeFirst(resp) ==
    IF resp.failed
    THEN [manifest |-> <<>>, err |-> <<"Get: transport error">>, decoded |-> FALSE]
    ELSE IF resp.json = <<>>
    THEN [manifest |-> <<>>, err |-> <<"invalid character">>, decoded |-> TRUE]
    ELSE [manifest |-> resp.json, err |-> <<>>, decoded |-> TRUE]

GetManifest(resp) ==
    IF resp.failed
    THEN [manifest |-> <<>>, err |-> <<"Get: transport error">>, decoded |-> FALSE]
    ELSE IF resp.status # StatusOK
    THEN [manifest |-> <<>>,
          err |-> <<"failed to fetch manifest: ", StatusText(resp.status)>>,
          decoded |-> FALSE]
    ELSE IF resp.json = <<>>
    THEN [manifest |-> <<>>, err |-> <<"invalid character">>, decoded |-> TRUE]
    ELSE [manifest |-> resp.json, err |-> <<>>, decoded |-> TRUE]

\* ------------------------------------------------------------- the entries

manifestFilenameFixed(repository, tag) == <<"manifest.json">>

\* fmt.Sprintf("%s-%s.manifest.json", repository, tag)
manifestFilename(repository, tag) == repository \o <<"-">> \o tag \o <<".manifest.json">>

\* main's loop over manifest.Layers and the manifest entry appended last:
\* the URLs and the filenames, index by index.
CollectWithConfig(m, repository, tag) ==
    LET digests == (IF m.config # <<>> THEN <<m.config>> ELSE <<>>) \o m.layers
    IN [urls |-> [i \in 1..Len(digests) |-> constructBlobURL(BaseURL, repository, digests[i])]
                 \o <<ManifestURL(BaseURL, repository, tag)>>,
        filenames |-> [i \in 1..Len(digests) |-> createFilename(digests[i])]
                      \o <<manifestFilename(repository, tag)>>]

Collect(m, repository, tag) ==
    [urls |-> [i \in 1..Len(m.layers) |-> constructBlobURL(BaseURL, repository, m.layers[i])]
              \o <<ManifestURL(BaseURL, repository, tag)>>,
     filenames |-> [i \in 1..Len(m.layers) |-> createFilename(m.layers[i])]
                   \o <<manifestFilename(repository, tag)>>]

\* fmt.Printf("%s::%s\n", filename, url): one line of standard output
PrintedLine(filename, url) == filename \o <<"::">> \o url

\* --------------------------------------------------------------- PKGBUILD

\* fmt.Sprintf("    '%s::%s'", filename, url)
EntryLineBare(filename, url) == <<" ", " ", " ", " ", "'">> \o url \o <<"'">>

EntryLine(filename, url) ==
    <<" ", " ", " ", " ", "'">> \o filename \o <<"::">> \o url \o <<"'">>

EntryLines(urls, filenames) == [i \in 1..Len(urls) |-> EntryLine(filenames[i], urls[i])]

\* The test that drops an old line of the source array.
KeepOldURL(trimmedLine) == FALSE

IsOldURL(trimmedLine) == Contains(trimmedLine, Host)

\* The loop of updatePKGBUILD over the lines, inSourceArray being its flag.
RECURSIVE ScanLines(_, _, _)
ScanLines(lines, inSourceArray, entries) ==
    IF lines = <<>> THEN <<>>
    ELSE LET line == Head(lines)
             trimmedLine == TrimSpace(line)
         IN IF HasPrefix(trimmedLine, SourceOpen)
            THEN <<line>> \o ScanLines(Tail(lines), TRUE, entries)
            ELSE IF inSourceArray /\ HasPrefix(trimmedLine, Close)
            THEN entries \o <<line>> \o ScanLines(Tail(lines), FALSE, entries)
            ELSE IF inSourceArray /\ IsOldURL(trimmedLine)
            THEN ScanLines(Tail(lines), inSourceArray, entries)
            ELSE <<line>> \o ScanLines(Tail(lines), inSourceArray, entries)

\* The content updatePKGBUILD writes, from the content it read.
NewContent(content, urls, filenames) ==
    Join(ScanLines(Split(content), FALSE, EntryLines(urls, filenames)), <<NL>>)

\* updatePKGBUILD on the file f (whether it can be read, whether it can be
\* written, its content): the file afterwards, the error returned (<<>> is
\* nil), the lines printed and whether os.WriteFile wrote.  A file that
\* cannot be written fails os.WriteFile at its open and keeps its content.
updatePKGBUILD(f, urls, filenames) ==
    IF ~f.readable
    THEN [file |-> f, err |-> <<"failed to read PKGBUILD">>, out |-> <<>>, wrote |-> FALSE]
    ELSE IF ~f.writable
    THEN [file |-> f, err |-> <<"failed to write to PKGBUILD">>, out |-> <<>>, wrote |-> FALSE]
    ELSE [file |-> [f EXCEPT !.content = NewContent(f.content, urls, filenames)],
          err |-> <<>>,
          out |-> <<<<"PKGBUILD successfully updated.">>>>,
          wrote |-> TRUE]

\* ------------------------------------------------------------ the programs

\* src/main.go holds two programs: "flags" (-fetch, -update-pkgbuild), which
\* lists the entries or rewrites ./PKGBUILD, and "plain", which prints the
\* layers' URLs.
VARIABLES
    program,     \* which of the two programs runs
    args,        \* the command line's arguments after the flags
    fetchFlag,   \* -fetch
    updateFlag,  \* -update-pkgbuild
    pc,          \* where main is: start, fetched, collected, exit0, exit1
    repository,  \* main's repository
    tag,         \* main's tag
    response,    \* what the registry answered to the GET request
    requests,    \* the GET requests issued
    decodes,     \* the bodies handed to the JSON decoder
    manifest,    \* main's manifest: <<>> (nil) or <<m>>
    err,         \* the last error returned: <<>> is nil
    blobURLs,    \* main's blobURLs
    filenames,   \* main's filenames
    stdout,      \* the lines on standard output
    stderr,      \* the lines on standard error
    pkgbuild,    \* ./PKGBUILD: readable, writable, content
    writes,      \* the os.WriteFile calls that wrote ./PKGBUILD
    orig,        \* the content of ./PKGBUILD at the start
    runs,        \* the calls of updatePKGBUILD
    once         \* the content of ./PKGBUILD after the first call

vars == <<program, args, fetchFlag, updateFlag, pc, repository, tag, response,
          requests, decodes, manifest, err, blobURLs, filenames, stdout, stderr,
          pkgbuild, writes, orig, runs, once>>

\* The tokens of a model name, and the names of the command line.
NameTokens == {"foo", "v1", ":"}
Names == SeqsUpTo(NameTokens, MaxNameLen)

\* modelName := "tinyllama:latest"
DefaultModel == <<"tinyllama", ":", "latest">>

\* The tokens of a PKGBUILD.
FileTokens == {SourceOpen, Close, Host, NL, " ", "x"}

\* The files ./PKGBUILD of the program's runs: one that cannot be read, one
\* that cannot be written, one without a source array, one whose source array
\* holds an old registry URL and another entry, and one whose source array
\* closes on the line that opens it.
WithArray == <<SourceOpen, NL, " ", "'", Host, "'", NL, " ", "x", NL, Close, NL, "x", NL>>
WithoutArray == <<"x", NL, "x", NL>>
OneLineArray == <<SourceOpen, Close, NL, "x", Host, NL, "x", NL>>
PKGBUILDs ==
    { [readable |-> FALSE, writable |-> TRUE, content |-> <<>>],
      [readable |-> TRUE, writable |-> FALSE, content |-> WithArray],
      [readable |-> TRUE, writable |-> TRUE, content |-> WithArray],
      [readable |-> TRUE, writable |-> TRUE, content |-> WithoutArray],
      [readable |-> TRUE, writable |-> TRUE, content |-> OneLineArray] }

NoResponse == [failed |-> FALSE, status |-> 0, json |-> <<>>]

Init ==
    /\ program \in {"flags", "plain"}
    /\ args \in {<<>>} \cup {<<n>> : n \in Names}
    /\ fetchFlag \in BOOLEAN
    /\ updateFlag \in BOOLEAN
    /\ program = "plain" => ~fetchFlag /\ ~updateFlag
    /\ pkgbuild \in PKGBUILDs
    /\ orig = pkgbuild.content
    /\ once = pkgbuild.content
    /\ pc = "start"
    /\ repository = <<>>
    /\ tag = <<>>
    /\ response = NoResponse
    /\ requests = 0
    /\ decodes = 0
    /\ manifest = <<>>
    /\ err = <<>>
    /\ blobURLs = <<>>
    /\ filenames = <<>>
    /\ stdout = <<>>
    /\ stderr = <<>>
    /\ writes = 0
    /\ runs = 0

\* log.Fatalf after a failed GetManifest: the run ends.
RetryOnError(e) == IF e # <<>> THEN "start" ELSE "fetched"

AfterGetManifest(e) == IF e # <<>> THEN "exit1" ELSE "fetched"

\* main up to the manifest: the model name, ParseModelPath, GetManifest.  The
\* plain program's GetManifest prints the URL it fetches.
FetchManifest ==
    /\ pc = "start"
    /\ \E resp \in Responses :
        LET modelName == IF Len(args) > 0 THEN args[1] ELSE DefaultModel
            parsed == ParseModelPath(modelName)
            res == GetManifest(resp)
        IN /\ repository' = parsed[1]
           /\ tag' = parsed[2]
           /\ response' = resp
           /\ requests' = requests + 1
           /\ decodes' = decodes + (IF res.decoded THEN 1 ELSE 0)
           /\ manifest' = res.manifest
           /\ err' = res.err
           /\ stdout' = IF program = "plain"
                        THEN <<<<"Fetching manifest from: ">>
                                \o ManifestURL(BaseURL, parsed[1], parsed[2])>>
                        ELSE stdout
           /\ stderr' = IF res.err # <<>>
                        THEN <<<<"Error retrieving manifest: ">> \o res.err>>
                        ELSE stderr
           /\ pc' = AfterGetManifest(res.err)
    /\ UNCHANGED <<program, args, fetchFlag, updateFlag, blobURLs, filenames,
                   pkgbuild, writes, orig, runs, once>>

\* The flags program collects the blob URLs and the filenames.
CollectEntries ==
    /\ pc = "fetched"
    /\ program = "flags"
    /\ LET c == Collect(manifest[1], repository, tag)
       IN /\ blobURLs' = c.urls
          /\ filenames' = c.filenames
    /\ pc' = "collected"
    /\ UNCHANGED <<program, args, fetchFlag, updateFlag, repository, tag, response,
                   requests, decodes, manifest, err, stdout, stderr, pkgbuild,
                   writes, orig, runs, once>>

\* -fetch: the header and one line for each entry.
PrintURLs ==
    /\ pc = "collected"
    /\ fetchFlag
    /\ stdout' = stdout \o <<<<"Download URLs for the model:">>>>
                    \o [i \in 1..Len(blobURLs) |-> PrintedLine(filenames[i], blobURLs[i])]
    /\ pc' = "exit0"
    /\ UNCHANGED <<program, args, fetchFlag, updateFlag, repository, tag, response,
                   requests, decodes, manifest, err, blobURLs, filenames, stderr,
                   pkgbuild, writes, orig, runs, once>>

\* One call of updatePKGBUILD(blobURLs, filenames) on ./PKGBUILD.
CallUpdatePKGBUILD ==
    LET r == updatePKGBUILD(pkgbuild, blobURLs, filenames)
    IN /\ pkgbuild' = r.file
       /\ err' = r.err
       /\ stdout' = stdout \o r.out
       /\ stderr' = IF r.err # <<>>
                    THEN stderr \o <<<<"Failed to update PKGBUILD: ">> \o r.err>>
                    ELSE stderr
       /\ writes' = writes + (IF r.wrote THEN 1 ELSE 0)
       /\ runs' = runs + 1
       /\ once' = IF runs = 0 THEN r.file.content ELSE once
       /\ pc' = IF pc = "collected" THEN (IF r.err # <<>> THEN "exit1" ELSE "exit0") ELSE pc

\* -update-pkgbuild without -fetch
UpdatePKGBUILD ==
    /\ pc = "collected"
    /\ ~fetchFlag
    /\ updateFlag
    /\ CallUpdatePKGBUILD
    /\ UNCHANGED <<program, args, fetchFlag, updateFlag, repository, tag, response,
                   requests, decodes, manifest, blobURLs, filenames, orig>>

\* Neither flag: main returns.
NoFlag ==
    /\ pc = "collected"
    /\ ~fetchFlag
    /\ ~updateFlag
    /\ pc' = "exit0"
    /\ UNCHANGED <<program, args, fetchFlag, updateFlag, repository, tag, response,
                   requests, decodes, manifest, err, blobURLs, filenames, stdout,
                   stderr, pkgbuild, writes, orig, runs, once>>

\* The plain program with a manifest without layers.
NoLayers ==
    /\ pc = "fetched"
    /\ program = "plain"
    /\ Len(manifest[1].layers) = 0
    /\ stderr' = stderr \o <<<<"No layers found in the manifest.">>>>
    /\ pc' = "exit1"
    /\ UNCHANGED <<program, args, fetchFlag, updateFlag, repository, tag, response,
                   requests, decodes, manifest, err, blobURLs, filenames, stdout,
                   pkgbuild, writes, orig, runs, once>>

\* The plain program prints the header and each layer's URL.
PrintLayerURLs ==
    /\ pc = "fetched"
    /\ program = "plain"
    /\ Len(manifest[1].layers) # 0
    /\ stdout' = stdout \o <<<<"Download URLs for the model:">>>>
                    \o [i \in 1..Len(manifest[1].layers) |->
                            constructBlobURL(BaseURL, repository, manifest[1].layers[i])]
    /\ pc' = "exit0"
    /\ UNCHANGED <<program, args, fetchFlag, updateFlag, repository, tag, response,
                   requests, decodes, manifest, err, blobURLs, filenames, stderr,
                   pkgbuild, writes, orig, runs, once>>

Next ==
    \/ FetchManifest
    \/ CollectEntries
    \/ PrintURLs
    \/ UpdatePKGBUILD
    \/ NoFlag
    \/ NoLayers
    \/ PrintLayerURLs

Spec == Init /\ [][Next]_vars

\* ------------------------------------------- updatePKGBUILD on every file

\* The manifests whose entries the patcher is given.
PatchManifests ==
    { [config |-> <<>>, layers |-> <<>>],
      [config |-> <<"sha256", ":", "aaa">>, layers |-> <<<<"sha256", ":", "bbb">>>>] }

\* The flags program after it collected the entries of foo:v1, before every
\* PKGBUILD of at most MaxLen tokens.
InitPatch ==
    /\ program = "flags"
    /\ args = << <<"foo", ":", "v1">> >>
    /\ fetchFlag = FALSE
    /\ updateFlag = TRUE
    /\ pc = "collected"
    /\ repository = <<"foo">>
    /\ tag = <<"v1">>
    /\ \E m \in PatchManifests :
        /\ manifest = <<m>>
        /\ response = [failed |-> FALSE, status |-> StatusOK, json |-> <<m>>]
        /\ blobURLs = Collect(m, <<"foo">>, <<"v1">>).urls
        /\ filenames = Collect(m, <<"foo">>, <<"v1">>).filenames
    /\ requests = 1
    /\ decodes = 1
    /\ err = <<>>
    /\ stdout = <<>>
    /\ stderr = <<>>
    /\ \E c \in SeqsUpTo(FileTokens, MaxLen) :
        /\ pkgbuild = [readable |-> TRUE, writable |-> TRUE, content |-> c]
        /\ orig = c
        /\ once = c
    /\ writes = 0
    /\ runs = 0

\* The program run a second time, with the same entries.
UpdateAgain ==
    /\ pc = "exit0"
    /\ runs = 1
    /\ CallUpdatePKGBUILD
    /\ UNCHANGED <<program, args, fetchFlag, updateFlag, repository, tag, response,
                   requests, decodes, manifest, blobURLs, filenames, orig>>

NextPatch ==
    \/ UpdatePKGBUILD
    \/ UpdateAgain

SpecPatch == InitPatch /\ [][NextPatch]_vars

\* ------------------------------------------------------------------ claims

\* The name main parses.
GivenName == IF Len(args) > 0 THEN args[1] ELSE DefaultModel

StartsWith(s, t) == Len(s) >= Len(t) /\ SubSeq(s, 1, Len(t)) = t

EndsWith(s, t) == Len(s) >= Len(t) /\ SubSeq(s, Len(s) - Len(t) + 1, Len(s)) = t

\* The first index after i of a token tok of s, 0 when there is none.
NextIndexOf(s, i, tok) ==
    IF \E k \in (i + 1)..Len(s) : s[k] = tok
    THEN CHOOSE k \in (i + 1)..Len(s) : s[k] = tok /\ \A j \in (i + 1)..(k - 1) : s[j] # tok
    ELSE 0

\* The first line of L after line i that P holds of, 0 when there is none.
NextLine(L, i, P(_)) ==
    IF \E k \in (i + 1)..Len(L) : P(L[k])
    THEN CHOOSE k \in (i + 1)..Len(L) : P(L[k]) /\ \A j \in (i + 1)..(k - 1) : ~P(L[j])
    ELSE 0

\* A line that opens the source array, and one that closes it.
OpensArray(l) == StartsWith(TrimSpace(l), <<SourceOpen>>)
ClosesArray(l) == StartsWith(TrimSpace(l), <<Close>>)

\* The text of the line updatePKGBUILD writes for entry k.
WrittenEntry(k) ==
    <<" ", " ", " ", " ", "'">> \o filenames[k] \o <<"::">> \o blobURLs[k] \o <<"'">>

\* C1: after updatePKGBUILD ran on a file that holds "source=(" and a ")"
\* after it, the file starts with the original text up to the opening
\* parenthesis and ends with the original text after the first ")" that
\* follows it.
C1_OutsideRegionUnchanged ==
    LET o == IndexOf(orig, SourceOpen)
        c == NextIndexOf(orig, o, Close)
        prefix == SubSeq(orig, 1, o)
        suffix == SubSeq(orig, c + 1, Len(orig))
    IN runs >= 1 /\ o > 0 /\ c > 0 =>
        /\ Len(once) >= Len(prefix) + Len(suffix)
        /\ StartsWith(once, prefix)
        /\ EndsWith(once, suffix)

\* C2: updatePKGBUILD applied again with the same entries leaves the file as
\* the first application left it.
C2_Idempotent == runs >= 2 => pkgbuild.content = once

\* A file holding a source array with an old registry URL was patched twice.
C2_Witness ==
    /\ runs = 2
    /\ orig = <<SourceOpen, NL, Host, NL, Close>>
    /\ once # orig
    /\ Len(blobURLs) = 2

\* C3: updatePKGBUILD on a file without "source=(" returns an error, does
\* not report success, and leaves the file as it was.
C3_AnchorNotFoundFails ==
    runs >= 1 /\ ~Contains(orig, SourceOpen) =>
        /\ err # <<>>
        /\ ~Contains(stdout, <<"PKGBUILD successfully updated.">>)
        /\ pkgbuild.content = orig

\* C4 as amended: when a line opening the source array is followed by a line
\* closing it, updatePKGBUILD keeps the file up to the opening line, keeps of
\* the lines between the two those that do not hold "registry.ollama.ai" (and
\* any that open the array again), then writes one line '    filename::url'
\* for each entry, in entry order, then the closing line.
C4_ArrayKeepsOtherEntries ==
    LET L == Split(orig)
        O == Split(once)
        i == NextLine(L, 0, OpensArray)
        j == NextLine(L, i, ClosesArray)
        kept == SelectSeq(SubSeq(L, i + 1, j - 1),
                          LAMBDA l : OpensArray(l) \/ ~Contains(l, Host))
        k == Len(kept)
        n == Len(blobURLs)
    IN runs >= 1 /\ i > 0 /\ j > 0 =>
        /\ Len(O) >= i + k + n + 1
        /\ SubSeq(O, 1, i) = SubSeq(L, 1, i)
        /\ SubSeq(O, i + 1, i + k) = kept
        /\ \A t \in 1..n : O[i + k + t] = WrittenEntry(t)
        /\ O[i + k + n + 1] = L[j]

\* A source array holding an entry that is no registry URL was patched.
C4_Witness ==
    /\ runs = 1
    /\ orig = <<SourceOpen, NL, "x", NL, Close>>
    /\ once # orig
    /\ Len(blobURLs) = 2

\* C4 as claimed: after the patch the source array holds one line for each
\* entry, in entry order, and nothing else (blank lines aside): every entry
\* the array held before is gone.
C4_ArrayHoldsOnlyEntries ==
    LET L == Split(orig)
        O == Split(once)
        i == NextLine(L, 0, OpensArray)
        j == NextLine(L, i, ClosesArray)
        c == NextLine(O, i, ClosesArray)
        held == SelectSeq(SubSeq(O, i + 1, c - 1), LAMBDA l : TrimSpace(l) # <<>>)
        n == Len(blobURLs)
    IN runs >= 1 /\ i > 0 /\ j > 0 =>
        /\ c > 0
        /\ Len(held) = n
        /\ \A t \in 1..n : EndsWith(TrimSpace(held[t]), blobURLs[t] \o <<"'">>)

\* C5 as amended: the flags program's entries are one for each layer, in the
\* manifest's order, then the manifest's; the config layer gets none, so a
\* manifest of N layers gives N+1 entries whatever its config digest, and one
\* entry when it has no layers.  The plain program prints the N layers' URLs
\* and fails when N is 0.
C5_EntriesAreLayersThenManifest ==
    /\ program = "flags" /\ pc \in {"collected", "exit0", "exit1"} /\ manifest # <<>> =>
        LET layers == manifest[1].layers
            n == Len(layers)
        IN /\ Len(blobURLs) = n + 1
           /\ Len(filenames) = n + 1
           /\ \A i \in 1..n :
                /\ EndsWith(blobURLs[i], <<"/", "blobs", "/">> \o layers[i])
                /\ filenames[i] = <<layers[i][1], "-", layers[i][3]>>
           /\ EndsWith(blobURLs[n + 1], <<"manifests">> \o (IF tag = <<>> THEN <<>> ELSE <<"/">> \o tag))
           /\ EndsWith(filenames[n + 1], <<".manifest.json">>)
    /\ program = "plain" /\ pc \in {"exit0", "exit1"} /\ manifest # <<>> =>
        LET layers == manifest[1].layers
            n == Len(layers)
        IN IF n = 0
           THEN pc = "exit1" /\ Len(stdout) = 1
           ELSE /\ pc = "exit0"
                /\ Len(stdout) = n + 2
                /\ \A i \in 1..n : EndsWith(stdout[i + 2], <<"/", "blobs", "/">> \o layers[i])

\* The entries of a manifest with a config digest and two layers were collected.
C5_Witness ==
    /\ program = "flags"
    /\ pc = "collected"
    /\ manifest # <<>>
    /\ manifest[1].config # <<>>
    /\ Len(manifest[1].layers) = 2
    /\ Len(blobURLs) = 3

\* C5 as claimed: the config layer's entry comes first when the config digest
\* is not empty, so a manifest of N layers gives N+2 entries then and N+1
\* otherwise.
C5_ConfigEntryFirst ==
    program = "flags" /\ pc \in {"collected", "exit0", "exit1"} /\ manifest # <<>> =>
        LET m == manifest[1]
        IN IF m.config # <<>>
           THEN /\ Len(blobURLs) = Len(m.layers) + 2
                /\ EndsWith(blobURLs[1], m.config)
           ELSE Len(blobURLs) = Len(m.layers) + 1

\* The manifest and the name of the end-to-end example.
ExampleManifest ==
    [config |-> <<"sha256", ":", "aaa">>, layers |-> <<<<"sha256", ":", "bbb">>>>]
ExampleRun ==
    /\ program = "flags"
    /\ fetchFlag
    /\ pc = "exit0"
    /\ args = << <<"foo", ":", "v1">> >>
    /\ manifest = <<ExampleManifest>>

\* C6 as amended: with -fetch the standard output is the header line
\* "Download URLs for the model:" and then one line filename::url for each
\* entry, the manifest's filename being <repository>-<tag>.manifest.json; the
\* example prints the header, sha256-bbb::<blob bbb> and
\* foo-v1.manifest.json::<manifest url>.
C6_ListIsHeaderAndNamedLines ==
    /\ program = "flags" /\ fetchFlag /\ pc = "exit0" =>
        LET n == Len(blobURLs)
        IN /\ Len(stdout) = n + 1
           /\ stdout[1] = <<"Download URLs for the model:">>
           /\ \A i \in 1..n : stdout[i + 1] = filenames[i] \o <<"::">> \o blobURLs[i]
           /\ StartsWith(stdout[n + 1],
                         repository \o <<"-">> \o tag \o <<".manifest.json", "::", "https://">>)
    /\ ExampleRun =>
        stdout = << <<"Download URLs for the model:">>,
                    <<"sha256", "-", "bbb", "::", "https://", "registry.ollama.ai", "/",
                      "v2", "/", "library", "/", "foo", "/", "blobs", "/",
                      "sha256", ":", "bbb">>,
                    <<"foo", "-", "v1", ".manifest.json", "::", "https://",
                      "registry.ollama.ai", "/", "v2", "/", "library", "/", "foo", "/",
                      "manifests", "/", "v1">> >>

\* The example run has printed its list.
C6_Witness == ExampleRun /\ Len(stdout) = 3

\* C6 as claimed: the list is one line for each entry and no other line, the
\* manifest's line being manifest.json::<url> and every other line the bare
\* URL.
C6_ListIsBareURLs ==
    program = "flags" /\ fetchFlag /\ pc = "exit0" =>
        LET n == Len(blobURLs)
        IN /\ Len(stdout) = n
           /\ \A i \in 1..(n - 1) : stdout[i] = blobURLs[i]
           /\ stdout[n] = <<"manifest.json", "::">> \o blobURLs[n]

\* C7: after a response whose status is not OK, GetManifest returned no
\* manifest and an error holding the status text, and no body went to the
\* JSON decoder; a body is decoded only after an OK status.
C7_NonOKStatusIsNotDecoded ==
    /\ requests = 1 /\ ~response.failed /\ response.status # 200 =>
        /\ manifest = <<>>
        /\ Contains(err, StatusText(response.status))
        /\ decodes = 0
    /\ decodes > 0 => ~response.failed /\ response.status = 200

\* A 404 response whose body is a manifest was received.
C7_Witness ==
    /\ requests = 1
    /\ ~response.failed
    /\ response.status = 404
    /\ response.json # <<>>
    /\ pc = "exit1"

\* A step of the run has failed: the fetch, the status, the decoding, the read
\* of the file (the run ended with exit status 1), or the search for the
\* source array in the file updatePKGBUILD read.
Failed ==
    \/ pc = "exit1"
    \/ runs >= 1 /\ pkgbuild.readable /\ ~Contains(orig, SourceOpen)

\* A line of standard output that is an entry.
IsEntryLine(l) == Contains(l, Host) /\ l[1] # "Fetching manifest from: "

\* C8: when a step has failed, no entry line is on standard output and
\* ./PKGBUILD has not been written.
C8_NoPartialSuccess ==
    Failed => /\ \A i \in 1..Len(stdout) : ~IsEntryLine(stdout[i])
              /\ writes = 0

\* C9: ParseModelPath(s) is (s, "latest") when s holds no colon, and
\* otherwise the text before the first colon and all the text after it.
C9_ParseModelPathCutsAtFirstColon ==
    pc # "start" =>
        IF \A i \in 1..Len(GivenName) : GivenName[i] # ":"
        THEN repository = GivenName /\ tag = <<"latest">>
        ELSE /\ GivenName = repository \o <<":">> \o tag
             /\ \A i \in 1..Len(repository) : repository[i] # ":"

\* A name with two colons was parsed: the second stays in the tag.
C9_Witness ==
    /\ pc # "start"
    /\ args = << <<"foo", ":", ":">> >>
    /\ tag = <<":">>

\* C10: a run issues at most one GET request, and a failed attempt ends the
\* run with the error reported.
C10_AtMostOneRequest ==
    /\ requests <= 1
    /\ requests = 1 /\ (response.failed \/ response.status # 200 \/ response.json = <<>>) =>
        /\ pc = "exit1"
        /\ err # <<>>
        /\ Len(stderr) = 1

\* A request failed in transport and the run ended.
C10_Witness ==
    /\ requests = 1
    /\ response.failed
    /\ pc = "exit1"

====
